---- MODULE Spec2Model ----
(***************************************************************************)
(* ConfigurationParser of week1_functions.py: a base mapping, a registry   *)
(* of per-key validators and one of per-key transformers; parse() folds an *)
(* ordered list of sources and the keyword overrides over a copy of the    *)
(* base, transforms, validates and returns the mapping.                    *)
(*                                                                         *)
(* A Python str is a sequence of one-character strings, a dict a function  *)
(* whose domain is its key set, and a config value a tagged record.        *)
(***************************************************************************)
EXTENDS Integers, Sequences, FiniteSets, TLC

VARIABLES
    default_config, \* the **default_config the instance was constructed with
    config,         \* self.config
    validators,     \* self.validators
    transformers,   \* self.transformers
    ret,            \* the most recent call on the instance and its outcome
    value_arg,      \* the argument of a _convert_value call
    value_str,      \* its local value_str once the quotes are removed
    converted       \* what the call returned

vars == <<default_config, config, validators, transformers, ret, value_arg, value_str, converted>>
parser_vars == <<default_config, config, validators, transformers, ret>>
convert_vars == <<value_arg, value_str, converted>>

(***************************************************************************)
(* Bounds of the model.                                                    *)
(***************************************************************************)
MaxRawLen == 4        \* longest raw value enumerated over Alphabet
MaxSources == 2       \* longest *sources list passed to parse
MaxTransformers == 1  \* most keys the transformer registry holds

(***************************************************************************)
(* Python strings.                                                         *)
(***************************************************************************)
DQ == "\""
SQ == "'"

Whitespace == {" ", "\t", "\n", "\r"}

Upper == <<"A", "B", "C", "D", "E", "F", "G", "H", "I", "J", "K", "L", "M",
           "N", "O", "P", "Q", "R", "S", "T", "U", "V", "W", "X", "Y", "Z">>
LowerOf == <<"a", "b", "c", "d", "e", "f", "g", "h", "i", "j", "k", "l", "m",
             "n", "o", "p", "q", "r", "s", "t", "u", "v", "w", "x", "y", "z">>

UpperToLower == [c \in {Upper[i] : i \in DOMAIN Upper} |->
                    LowerOf[CHOOSE i \in DOMAIN Upper : Upper[i] = c]]

LowerChar(c) == IF c \in DOMAIN UpperToLower THEN UpperToLower[c] ELSE c

\* str.lower()
RECURSIVE Lower(_)
Lower(s) == IF s = <<>> THEN <<>> ELSE <<LowerChar(Head(s))>> \o Lower(Tail(s))

\* str.strip(chars): every leading and every trailing character that is in
\* chars is removed, however many there are.
RECURSIVE LStrip(_, _)
LStrip(s, chars) ==
    IF s # <<>> /\ Head(s) \in chars THEN LStrip(Tail(s), chars) ELSE s

RECURSIVE RStrip(_, _)
RStrip(s, chars) ==
    IF s # <<>> /\ s[Len(s)] \in chars THEN RStrip(SubSeq(s, 1, Len(s) - 1), chars) ELSE s

Strip(s, chars) == RStrip(LStrip(s, chars), chars)

\* c in s
Contains(s, c) == \E i \in 1..Len(s) : s[i] = c

\* s.find(c), 0 when absent
IndexOf(s, c) ==
    IF Contains(s, c) THEN CHOOSE i \in 1..Len(s) : s[i] = c /\ \A j \in 1..(i - 1) : s[j] # c
    ELSE 0

\* s.endswith(suffix)
EndsWith(s, suffix) ==
    Len(s) >= Len(suffix) /\ SubSeq(s, Len(s) - Len(suffix) + 1, Len(s)) = suffix

(***************************************************************************)
(* Config values: bool, int, float and str.  A float is the decimal        *)
(* m * 10^e it was parsed from, normalised so that equal floats are equal  *)
(* records.                                                                *)
(***************************************************************************)
VBool(b) == [t |-> "bool", b |-> b]
VInt(i) == [t |-> "int", i |-> i]
VFloat(m, e) == [t |-> "float", m |-> m, e |-> e]
VStr(s) == [t |-> "str", s |-> s]

(***************************************************************************)
(* int(str) and float(str) on decimal literals.                            *)
(***************************************************************************)
Digits == {"0", "1", "2", "3", "4", "5", "6", "7", "8", "9"}

DigitVal(c) ==
    CASE c = "0" -> 0 [] c = "1" -> 1 [] c = "2" -> 2 [] c = "3" -> 3 [] c = "4" -> 4
      [] c = "5" -> 5 [] c = "6" -> 6 [] c = "7" -> 7 [] c = "8" -> 8 [] c = "9" -> 9

\* digit ("_"? digit)*: single underscores may separate digits
IsDigitPart(s) ==
    /\ s # <<>>
    /\ s[1] \in Digits
    /\ s[Len(s)] \in Digits
    /\ \A i \in 1..Len(s) : s[i] \in Digits \cup {"_"}
    /\ \A i \in 1..(Len(s) - 1) : ~(s[i] = "_" /\ s[i + 1] = "_")

RECURSIVE DigitsValue(_)
DigitsValue(s) ==
    IF s = <<>> THEN 0
    ELSE IF s[Len(s)] = "_" THEN DigitsValue(SubSeq(s, 1, Len(s) - 1))
    ELSE 10 * DigitsValue(SubSeq(s, 1, Len(s) - 1)) + DigitVal(s[Len(s)])

\* how many digits s holds
DigitCount(s) == Cardinality({i \in 1..Len(s) : s[i] \in Digits})

SignOf(s) == IF s # <<>> /\ Head(s) = "-" THEN -1 ELSE 1
Unsigned(s) == IF s # <<>> /\ Head(s) \in {"+", "-"} THEN Tail(s) ELSE s

\* int(s): ok is FALSE where int() raises ValueError
ParseInt(s) ==
    LET t == Strip(s, Whitespace)
        body == Unsigned(t)
    IN  IF IsDigitPart(body)
        THEN [ok |-> TRUE, v |-> VInt(SignOf(t) * DigitsValue(body))]
        ELSE [ok |-> FALSE]

RECURSIVE NormFloat(_, _)
NormFloat(m, e) ==
    IF m = 0 THEN VFloat(0, 0)
    ELSE IF m % 10 = 0 THEN NormFloat(m \div 10, e + 1)
    ELSE VFloat(m, e)

\* float(s) for a decimal literal: [sign] (digits [. [digits]] | . digits)
\* [(e|E) [sign] digits]; ok is FALSE where float() raises ValueError.  The
\* spellings inf, infinity and nan hold no "." and so never reach float() from
\* _convert_value.
ParseFloat(s) ==
    LET t == Strip(s, Whitespace)
        body == Unsigned(t)
        low == Lower(body)
        epos == IndexOf(low, "e")
        mant == IF epos = 0 THEN body ELSE SubSeq(body, 1, epos - 1)
        expo == IF epos = 0 THEN <<>> ELSE SubSeq(body, epos + 1, Len(body))
        dot == IndexOf(mant, ".")
        ip == IF dot = 0 THEN mant ELSE SubSeq(mant, 1, dot - 1)
        fp == IF dot = 0 THEN <<>> ELSE SubSeq(mant, dot + 1, Len(mant))
        mantOk == IF dot = 0 THEN IsDigitPart(ip)
                  ELSE /\ ip = <<>> \/ IsDigitPart(ip)
                       /\ fp = <<>> \/ IsDigitPart(fp)
                       /\ ip # <<>> \/ fp # <<>>
        expOk == epos = 0 \/ IsDigitPart(Unsigned(expo))
        expVal == IF epos = 0 THEN 0 ELSE SignOf(expo) * DigitsValue(Unsigned(expo))
    IN  IF mantOk /\ expOk
        THEN [ok |-> TRUE,
              v |-> NormFloat(SignOf(t) * DigitsValue(ip \o fp), expVal - DigitCount(fp))]
        ELSE [ok |-> FALSE]

(***************************************************************************)
(* ConfigurationParser._convert_value                                      *)
(***************************************************************************)
TrueWords == {<<"t", "r", "u", "e">>, <<"y", "e", "s">>, <<"o", "n">>}
FalseWords == {<<"f", "a", "l", "s", "e">>, <<"n", "o">>, <<"o", "f", "f">>}

\* a strip that removes one quote from each end and no more
StripQuotesOneLayer(s) ==
    IF Len(s) >= 2 /\ s[1] \in {SQ, DQ} /\ s[Len(s)] \in {SQ, DQ}
    THEN SubSeq(s, 2, Len(s) - 1)
    ELSE s

\* value_str.strip('\'"')
StripQuotes(s) == Strip(s, {SQ, DQ})

\* the try block: float() when the string holds a ".", int() otherwise
NumberConversion(s) == IF Contains(s, ".") THEN ParseFloat(s) ELSE ParseInt(s)

\* a conversion that compares with the boolean words without lower()
ConvertValueCaseSensitive(raw) ==
    LET s == StripQuotes(raw)
    IN  IF s \in TrueWords THEN VBool(TRUE)
        ELSE IF s \in FalseWords THEN VBool(FALSE)
        ELSE IF NumberConversion(s).ok THEN NumberConversion(s).v
        ELSE VStr(s)

ConvertValue(raw) ==
    LET s == StripQuotes(raw)
    IN  IF Lower(s) \in TrueWords THEN VBool(TRUE)
        ELSE IF Lower(s) \in FalseWords THEN VBool(FALSE)
        ELSE IF NumberConversion(s).ok THEN NumberConversion(s).v
        ELSE VStr(s)

(***************************************************************************)
(* Python dicts: a sequence of items in insertion order, keys distinct.    *)
(***************************************************************************)
Item(k, v) == [k |-> k, v |-> v]

EmptyDict == <<>>

Keys(d) == {d[i].k : i \in DOMAIN d}

\* k in d
Has(d, k) == \E i \in DOMAIN d : d[i].k = k

\* d[k]
Get(d, k) == d[CHOOSE i \in DOMAIN d : d[i].k = k].v

\* d[k] = v: an existing key keeps its position, a new key goes last
SetItem(d, k, v) ==
    IF Has(d, k)
    THEN LET i == CHOOSE j \in DOMAIN d : d[j].k = k
         IN  SubSeq(d, 1, i - 1) \o <<Item(k, v)>> \o SubSeq(d, i + 1, Len(d))
    ELSE Append(d, Item(k, v))

\* d.update(other) for a dict other
RECURSIVE UpdateDict(_, _)
UpdateDict(d, other) ==
    IF other = <<>> THEN d
    ELSE UpdateDict(SetItem(d, Head(other).k, Head(other).v), Tail(other))

\* the mapping a dict holds, whatever its order: d1 == d2 in Python
\* is AsMap(d1) = AsMap(d2)
AsMap(d) == [k \in Keys(d) |-> Get(d, k)]

(***************************************************************************)
(* Python objects that reach parse() as a source or come out of json.load. *)
(***************************************************************************)
PyDict(d) == [type |-> "dict", items |-> d]
PyStr(s) == [type |-> "str", s |-> s]
PyInt(i) == [type |-> "int", i |-> i]
PyList(elts) == [type |-> "list", elts |-> elts]
PyNone == [type |-> "NoneType"]
\* an instance of a user class with a to_dict() method returning d
PyConfigObject(d) == [type |-> "Settings", to_dict |-> d]

\* hasattr(obj, 'to_dict')
HasToDict(obj) == "to_dict" \in DOMAIN obj

(***************************************************************************)
(* Exceptions.                                                             *)
(***************************************************************************)
NoExc == [type |-> "none"]

\* ValueError(f"Unsupported config source type: {type(source)}")
UnsupportedSourceType(source) ==
    [type |-> "ValueError", msg |-> "Unsupported config source type", of |-> source.type]

\* ValueError(f"Validation failed for config key '{key}': {config[key]}")
ValidationFailed(key, value) ==
    [type |-> "ValueError", msg |-> "Validation failed for config key",
     key |-> key, value |-> value]

\* dict.update(x) for an x that is no mapping and no iterable of pairs
TypeError == [type |-> "TypeError"]

\* a method looked up on a value that has none
AttributeError == [type |-> "AttributeError"]

(***************************************************************************)
(* The files on disk.  A file is its text lines, whether open() succeeds   *)
(* on it, and what json.load makes of its contents (ok FALSE: it raises    *)
(* JSONDecodeError).  A path outside the domain is a missing file.         *)
(***************************************************************************)
File(readable, lines, json) == [readable |-> readable, lines |-> lines, json |-> json]

NotJson == [ok |-> FALSE]
Json(doc) == [ok |-> TRUE, doc |-> doc]

\* sample_config.txt, the file the example run writes
SampleConfigPath == <<"s", "a", "m", "p", "l", "e", "_", "c", "o", "n", "f", "i", "g", ".", "t", "x", "t">>
SampleConfigLines ==
    << <<"#", " ", "S", "a", "m", "p", "l", "e", " ", "c", "o", "n", "f", "i", "g", "u", "r", "a", "t", "i", "o", "n">>,
       <<"d", "e", "b", "u", "g", "=", "t", "r", "u", "e">>,
       <<"p", "o", "r", "t", "=", "9", "0", "0", "0">>,
       <<"h", "o", "s", "t", "=", "0", ".", "0", ".", "0", ".", "0">>,
       <<"m", "a", "x", "_", "c", "o", "n", "n", "e", "c", "t", "i", "o", "n", "s", "=", "5", "0", "0">>,
       <<"a", "p", "i", "_", "k", "e", "y", "=", "s", "e", "c", "r", "e", "t", "1", "2", "3">> >>

\* a line-based file with spacing, quoting, a blank line, an indented comment
\* and a line without "="
ValuesPath == <<"v", "a", "l", "u", "e", "s", ".", "c", "f", "g">>
ValuesLines ==
    << <<" ", " ", "#", " ", "t", "y", "p", "e", "d", " ", "v", "a", "l", "u", "e", "s">>,
       <<>>,
       <<"x", " ", "=", " ", "4", "2">>,
       <<"y", " ", "=", " ", "3", ".", "1", "4">>,
       <<"z", " ", "=", " ", "t", "r", "u", "e">>,
       <<"w", " ", "=", " ", "h", "e", "l", "l", "o">>,
       <<"n", "o", " ", "a", "s", "s", "i", "g", "n", "m", "e", "n", "t", " ", "h", "e", "r", "e">>,
       <<"h", "o", "s", "t", " ", "=", " ", SQ, "E", "x", "a", "m", "p", "l", "e", ".", "O", "R", "G", SQ>>,
       <<"u", "r", "l", "=", "a", "=", "b">> >>

GoodJsonPath == <<"g", "o", "o", "d", ".", "j", "s", "o", "n">>
GoodJsonDoc ==
    PyDict(<<Item(<<"p", "o", "r", "t">>, VInt(9000)), Item(<<"d", "e", "b", "u", "g">>, VBool(TRUE))>>)

BadJsonPath == <<"b", "a", "d", ".", "j", "s", "o", "n">>
ListJsonPath == <<"l", "i", "s", "t", ".", "j", "s", "o", "n">>
LockedPath == <<"l", "o", "c", "k", "e", "d", ".", "c", "f", "g">>
MissingPath == <<"m", "i", "s", "s", "i", "n", "g", ".", "t", "x", "t">>

FileSystem ==
    [p \in {SampleConfigPath, ValuesPath, GoodJsonPath, BadJsonPath, ListJsonPath, LockedPath} |->
        CASE p = SampleConfigPath -> File(TRUE, SampleConfigLines, NotJson)
          [] p = ValuesPath -> File(TRUE, ValuesLines, NotJson)
          [] p = GoodJsonPath -> File(TRUE, << <<"{", DQ, "p", "o", "r", "t", DQ, ":", " ", "9", "0", "0", "0", ",", " ", DQ, "d", "e", "b", "u", "g", DQ, ":", " ", "t", "r", "u", "e", "}">> >>, Json(GoodJsonDoc))
          [] p = BadJsonPath -> File(TRUE, << <<"{", DQ, "p", "o", "r", "t", DQ, ":", " ", "9", "0", "0", "0", ",">> >>, NotJson)
          [] p = ListJsonPath -> File(TRUE, << <<"[", "1", ",", " ", "2", "]">> >>, Json(PyList(<<VInt(1), VInt(2)>>)))
          [] p = LockedPath -> File(FALSE, << <<"p", "o", "r", "t", "=", "1">> >>, NotJson)]

(***************************************************************************)
(* ConfigurationParser._load_from_file                                     *)
(***************************************************************************)
\* line.split('=', 1) on a line that holds "="
SplitKey(line) == SubSeq(line, 1, IndexOf(line, "=") - 1)
SplitValue(line) == SubSeq(line, IndexOf(line, "=") + 1, Len(line))

\* the loop over the lines of a key=value file
RECURSIVE ParseLines(_, _)
ParseLines(cfg, lines) ==
    IF lines = <<>> THEN cfg
    ELSE LET line == Strip(Head(lines), Whitespace)
             used == /\ line # <<>>
                     /\ Head(line) # "#"
                     /\ Contains(line, "=")
         IN  ParseLines(
                 IF used
                 THEN SetItem(cfg, Strip(SplitKey(line), Whitespace),
                              ConvertValue(Strip(SplitValue(line), Whitespace)))
                 ELSE cfg,
                 Tail(lines))

\* a loader whose except branches fall off the end and so return None
ReadConfigFileNoneOnError(file_path) ==
    IF file_path \notin DOMAIN FileSystem THEN PyNone
    ELSE LET f == FileSystem[file_path]
         IN  IF ~f.readable THEN PyNone
             ELSE IF EndsWith(file_path, <<".", "j", "s", "o", "n">>)
                  THEN IF f.json.ok THEN f.json.doc ELSE PyNone
                  ELSE PyDict(ParseLines(EmptyDict, f.lines))

\* what _load_from_file does with the file at file_path: FileNotFoundError and
\* every other Exception are caught and give {}; json.load's document is
\* returned as it is
ReadConfigFile(file_path) ==
    IF file_path \notin DOMAIN FileSystem THEN PyDict(EmptyDict)
    ELSE LET f == FileSystem[file_path]
         IN  IF ~f.readable THEN PyDict(EmptyDict)
             ELSE IF EndsWith(file_path, <<".", "j", "s", "o", "n">>)
                  THEN IF f.json.ok THEN f.json.doc ELSE PyDict(EmptyDict)
                  ELSE PyDict(ParseLines(EmptyDict, f.lines))

\* the paths calls name, and what loading each gives (the files do not
\* change, so neither does the outcome of loading one)
KnownPaths == DOMAIN FileSystem \cup {MissingPath}
Loaded == [p \in KnownPaths |-> ReadConfigFile(p)]

LoadFromFile(file_path) == Loaded[file_path]

(***************************************************************************)
(* The callables a caller registers.  The three of the example run:        *)
(*   port_range    lambda x: isinstance(x, int) and 1 <= x <= 65535        *)
(*   positive_int  lambda x: isinstance(x, int) and x > 0                  *)
(*   lower_strip   lambda x: x.lower().strip()                             *)
(***************************************************************************)
\* isinstance(v, int): bool is a subclass of int
IsInstanceInt(v) == v.t \in {"int", "bool"}
IntOf(v) == IF v.t = "bool" THEN (IF v.b THEN 1 ELSE 0) ELSE v.i

ValidatorFuncs == {"port_range", "positive_int"}
TransformerFuncs == {"lower_strip"}

CallValidator(f, v) ==
    CASE f = "port_range" -> IsInstanceInt(v) /\ 1 <= IntOf(v) /\ IntOf(v) <= 65535
      [] f = "positive_int" -> IsInstanceInt(v) /\ IntOf(v) > 0

\* ok FALSE: the call raises exc
CallTransformer(f, v) ==
    CASE f = "lower_strip" ->
            IF v.t = "str"
            THEN [ok |-> TRUE, v |-> VStr(Strip(Lower(v.s), Whitespace))]
            ELSE [ok |-> FALSE, exc |-> AttributeError]

(***************************************************************************)
(* ConfigurationParser.parse, step by step.  A step's record holds the     *)
(* local result dict, the exception in flight (NoExc: none) and the calls  *)
(* made so far.                                                            *)
(***************************************************************************)
\* result = self.config, without the copy
CopyConfigSameObject(cfg) == [result |-> cfg, shared |-> TRUE]

\* result = self.config.copy(): a new dict; shared says whether result and
\* self.config are one object
CopyConfig(cfg) == [result |-> cfg, shared |-> FALSE]

\* result.update(x)
Update(result, x) ==
    IF x.type = "dict" THEN [result |-> UpdateDict(result, x.items), exc |-> NoExc]
    ELSE [result |-> result, exc |-> TypeError]

\* a loop body that passes over a source of an unsupported type
ProcessSourceSkipUnknown(result, source) ==
    IF source.type = "dict" THEN Update(result, source)
    ELSE IF source.type = "str" THEN Update(result, LoadFromFile(source.s))
    ELSE IF HasToDict(source) THEN Update(result, PyDict(source.to_dict))
    ELSE [result |-> result, exc |-> NoExc]

\* the body of "for source in sources"
ProcessSource(result, source) ==
    IF source.type = "dict" THEN Update(result, source)
    ELSE IF source.type = "str" THEN Update(result, LoadFromFile(source.s))
    ELSE IF HasToDict(source) THEN Update(result, PyDict(source.to_dict))
    ELSE [result |-> result, exc |-> UnsupportedSourceType(source)]

\* a loop that takes the sources last to first
RECURSIVE SourcesLoopLastFirst(_, _)
SourcesLoopLastFirst(result, sources) ==
    IF sources = <<>> THEN [result |-> result, exc |-> NoExc]
    ELSE LET step == ProcessSource(result, sources[Len(sources)])
         IN  IF step.exc # NoExc THEN step
             ELSE SourcesLoopLastFirst(step.result, SubSeq(sources, 1, Len(sources) - 1))

RECURSIVE SourcesLoop(_, _)
SourcesLoop(result, sources) ==
    IF sources = <<>> THEN [result |-> result, exc |-> NoExc]
    ELSE LET step == ProcessSource(result, Head(sources))
         IN  IF step.exc # NoExc THEN step
             ELSE SourcesLoop(step.result, Tail(sources))

\* overrides that only fill in the keys result lacks
ApplyOverridesKeepExisting(result, overrides) == UpdateDict(overrides, result)

\* result.update(overrides)
ApplyOverrides(result, overrides) == UpdateDict(result, overrides)

\* "for key, value in result.items()" from position i on; calls logs each
\* transformer invocation
RECURSIVE TransformLoop(_, _, _, _)
TransformLoop(result, i, trs, calls) ==
    IF i > Len(result) THEN [result |-> result, exc |-> NoExc, calls |-> calls]
    ELSE LET key == result[i].k
             value == result[i].v
         IN  IF ~Has(trs, key) THEN TransformLoop(result, i + 1, trs, calls)
             ELSE LET out == CallTransformer(Get(trs, key), value)
                      log == Append(calls, [key |-> key, arg |-> value])
                  IN  IF ~out.ok THEN [result |-> result, exc |-> out.exc, calls |-> log]
                      ELSE TransformLoop(SetItem(result, key, out.v), i + 1, trs, log)

\* a validation that calls the validators and ignores what they return
RECURSIVE ValidateConfigNoRaise(_, _, _, _)
ValidateConfigNoRaise(cfg, vals, i, calls) ==
    IF i > Len(vals) THEN [exc |-> NoExc, calls |-> calls]
    ELSE IF ~Has(cfg, vals[i].k) THEN ValidateConfigNoRaise(cfg, vals, i + 1, calls)
    ELSE ValidateConfigNoRaise(cfg, vals, i + 1,
                               Append(calls, [key |-> vals[i].k, arg |-> Get(cfg, vals[i].k)]))

\* a validation that takes the registry last to first
RECURSIVE ValidateConfigLastFirst(_, _, _, _)
ValidateConfigLastFirst(cfg, vals, i, calls) ==
    IF i > Len(vals) THEN [exc |-> NoExc, calls |-> calls]
    ELSE LET j == Len(vals) + 1 - i
             key == vals[j].k
         IN  IF ~Has(cfg, key) THEN ValidateConfigLastFirst(cfg, vals, i + 1, calls)
             ELSE LET log == Append(calls, [key |-> key, arg |-> Get(cfg, key)])
                  IN  IF ~CallValidator(vals[j].v, Get(cfg, key))
                      THEN [exc |-> ValidationFailed(key, Get(cfg, key)), calls |-> log]
                      ELSE ValidateConfigLastFirst(cfg, vals, i + 1, log)

\* _validate_config: "for key, validator in self.validators.items()" from
\* position i on; calls logs each validator invocation
RECURSIVE ValidateConfig(_, _, _, _)
ValidateConfig(cfg, vals, i, calls) ==
    IF i > Len(vals) THEN [exc |-> NoExc, calls |-> calls]
    ELSE LET key == vals[i].k
         IN  IF ~Has(cfg, key) THEN ValidateConfig(cfg, vals, i + 1, calls)
             ELSE LET log == Append(calls, [key |-> key, arg |-> Get(cfg, key)])
                  IN  IF ~CallValidator(vals[i].v, Get(cfg, key))
                      THEN [exc |-> ValidationFailed(key, Get(cfg, key)), calls |-> log]
                      ELSE ValidateConfig(cfg, vals, i + 1, log)

\* One parse(*sources, **overrides) call, statement by statement.  The record
\* of a call holds its arguments, the local result dict, the exception in
\* flight (NoExc: none), the stage the call reached ("sources", "transform",
\* "validate", "returned"), result as it was after the sources loop (folded)
\* and after the overrides (merged), the calls made to transformers and to
\* validators, and the value returned (None when the call raises).

\* result = self.config.copy()
BeginParse(start, sources, overrides) ==
    [op |-> "parse", sources |-> sources, overrides |-> overrides,
     shared |-> start.shared, result |-> start.result, exc |-> NoExc,
     stage |-> "sources", folded |-> PyNone, merged |-> PyNone,
     tcalls |-> <<>>, vcalls |-> <<>>, value |-> PyNone]

\* for source in sources: ...
AfterSources(r, loop) ==
    IF loop.exc # NoExc THEN [r EXCEPT !.result = loop.result, !.exc = loop.exc]
    ELSE [r EXCEPT !.result = loop.result, !.folded = loop.result]

\* result.update(overrides)
AfterOverrides(r, updated) ==
    IF r.exc # NoExc THEN r
    ELSE [r EXCEPT !.result = updated, !.merged = updated, !.stage = "transform"]

\* for key, value in result.items(): ...
AfterTransform(r, loop) ==
    IF r.exc # NoExc THEN r
    ELSE [r EXCEPT !.result = loop.result, !.exc = loop.exc, !.tcalls = loop.calls,
                   !.stage = IF loop.exc # NoExc THEN "transform" ELSE "validate"]

\* self._validate_config(result); return result
AfterValidate(r, check) ==
    IF r.exc # NoExc THEN r
    ELSE IF check.exc # NoExc THEN [r EXCEPT !.exc = check.exc, !.vcalls = check.calls]
    ELSE [r EXCEPT !.vcalls = check.calls, !.value = r.result, !.stage = "returned"]

\* a validation of result as it was before the transformers ran
ValidateStepUntransformed(r, vals) ==
    AfterValidate(r, ValidateConfig(IF r.exc = NoExc THEN r.merged ELSE r.result, vals, 1, <<>>))

SourcesStep(r) == AfterSources(r, SourcesLoop(r.result, r.sources))
OverridesStep(r) == AfterOverrides(r, ApplyOverrides(r.result, r.overrides))
TransformStep(r, trs) == AfterTransform(r, TransformLoop(r.result, 1, trs, <<>>))
ValidateStep(r, vals) == AfterValidate(r, ValidateConfig(r.result, vals, 1, <<>>))

ParseRun(cfg, vals, trs, sources, overrides) ==
    ValidateStep(
        TransformStep(
            OverridesStep(SourcesStep(BeginParse(CopyConfig(cfg), sources, overrides))),
            trs),
        vals)

(***************************************************************************)
(* The arguments calls are made with.                                      *)
(***************************************************************************)
\* ConfigurationParser(debug=False, port=8000, host="localhost",
\*                     max_connections=100)
ExampleDefaults ==
    << Item(<<"d", "e", "b", "u", "g">>, VBool(FALSE)), Item(<<"p", "o", "r", "t">>, VInt(8000)),
       Item(<<"h", "o", "s", "t">>, VStr(<<"l", "o", "c", "a", "l", "h", "o", "s", "t">>)), Item(<<"m", "a", "x", "_", "c", "o", "n", "n", "e", "c", "t", "i", "o", "n", "s">>, VInt(100)) >>

DefaultConfigs == {EmptyDict, ExampleDefaults}

\* parse({'debug': True, 'port': 3000})
Test1Dict == PyDict(<<Item(<<"d", "e", "b", "u", "g">>, VBool(TRUE)), Item(<<"p", "o", "r", "t">>, VInt(3000))>>)

\* a dict that sets a port outside 1..65535
BadPortDict == PyDict(<<Item(<<"p", "o", "r", "t">>, VInt(70000))>>)

\* an object whose to_dict() gives a port and a pool size
ConfigObject ==
    PyConfigObject(<<Item(<<"p", "o", "o", "l", "_", "s", "i", "z", "e">>, VInt(10)), Item(<<"p", "o", "r", "t">>, VInt(5000))>>)

\* parse(debug=True, host="0.0.0.0", new_setting="value")
Test2Overrides ==
    << Item(<<"d", "e", "b", "u", "g">>, VBool(TRUE)), Item(<<"h", "o", "s", "t">>, VStr(<<"0", ".", "0", ".", "0", ".", "0">>)),
       Item(<<"n", "e", "w", "_", "s", "e", "t", "t", "i", "n", "g">>, VStr(<<"v", "a", "l", "u", "e">>)) >>

\* parse(port=70000, max_connections=0)
BadOverrides == <<Item(<<"p", "o", "r", "t">>, VInt(70000)), Item(<<"m", "a", "x", "_", "c", "o", "n", "n", "e", "c", "t", "i", "o", "n", "s">>, VInt(0))>>

\* parse(host=" EXAMPLE.com ", port=3000)
HostOverrides ==
    <<Item(<<"h", "o", "s", "t">>, VStr(<<" ", "E", "X", "A", "M", "P", "L", "E", ".", "c", "o", "m", " ">>)), Item(<<"p", "o", "r", "t">>, VInt(3000))>>

\* every *sources tuple of at most MaxSources elements of pool
SourceLists(pool) == UNION {[1..n -> pool] : n \in 0..MaxSources}

(***************************************************************************)
(* The instance after construction, and the calls on it.                   *)
(***************************************************************************)
ConvertIdle == value_arg = <<>> /\ value_str = <<>> /\ converted = PyNone

\* __init__(**default_config)
Init ==
    /\ default_config \in DefaultConfigs
    /\ config = default_config
    /\ validators = EmptyDict
    /\ transformers = EmptyDict
    /\ ret = [op |-> "__init__"]
    /\ ConvertIdle

\* add_validator(key, validator_func)
AddValidator(key, validator_func) ==
    /\ validators' = SetItem(validators, key, validator_func)
    /\ ret' = [op |-> "add_validator", key |-> key]
    /\ UNCHANGED <<default_config, config, transformers, convert_vars>>

\* add_transformer(key, transformer_func)
AddTransformer(key, transformer_func) ==
    /\ Has(transformers, key) \/ Len(transformers) < MaxTransformers
    /\ transformers' = SetItem(transformers, key, transformer_func)
    /\ ret' = [op |-> "add_transformer", key |-> key]
    /\ UNCHANGED <<default_config, config, validators, convert_vars>>

\* parse(*sources, **overrides).  Nothing is assigned to self; self.config
\* changes only if result is the same object.
Parse(sources, overrides) ==
    /\ ret' = ParseRun(config, validators, transformers, sources, overrides)
    /\ config' = IF ret'.shared THEN ret'.result ELSE config
    /\ UNCHANGED <<default_config, validators, transformers, convert_vars>>

(***************************************************************************)
(* Merging, transforming and validating: dict, object and file sources.    *)
(***************************************************************************)
ValidatedKeys == {<<"p", "o", "r", "t">>, <<"h", "o", "s", "t">>}
TransformedKeys == {<<"h", "o", "s", "t">>, <<"p", "o", "r", "t">>}

MergeSources == {BadPortDict, ConfigObject, PyStr(ValuesPath)}
MergeOverrides == {EmptyDict, BadOverrides, HostOverrides}

Next ==
    \/ \E key \in ValidatedKeys, f \in ValidatorFuncs : AddValidator(key, f)
    \/ \E key \in TransformedKeys, f \in TransformerFuncs : AddTransformer(key, f)
    \/ \E sources \in SourceLists(MergeSources), overrides \in MergeOverrides :
          Parse(sources, overrides)

Spec == Init /\ [][Next]_vars

(***************************************************************************)
(* Sources of every type: supported ones, two that are not, and a .json    *)
(* file whose document is a list.                                          *)
(***************************************************************************)
TypedSources ==
    {Test1Dict, ConfigObject, PyStr(SampleConfigPath), PyStr(ListJsonPath), PyInt(42), PyNone}
TypedOverrides == {EmptyDict, BadOverrides}

NextTypes ==
    \/ \E f \in ValidatorFuncs : AddValidator(<<"p", "o", "r", "t">>, f)
    \/ \E f \in TransformerFuncs : AddTransformer(<<"h", "o", "s", "t">>, f)
    \/ \E sources \in SourceLists(TypedSources), overrides \in TypedOverrides :
          Parse(sources, overrides)

SpecTypes == Init /\ [][NextTypes]_vars

(***************************************************************************)
(* File sources: files that load, a missing one, a malformed .json one and *)
(* an unreadable one.                                                      *)
(***************************************************************************)
FileSources ==
    {Test1Dict, PyStr(SampleConfigPath), PyStr(GoodJsonPath), PyStr(MissingPath),
     PyStr(BadJsonPath), PyStr(LockedPath)}
FileOverrides == {EmptyDict, Test2Overrides}

NextFiles ==
    \/ \E f \in ValidatorFuncs : AddValidator(<<"p", "o", "r", "t">>, f)
    \/ \E f \in TransformerFuncs : AddTransformer(<<"h", "o", "s", "t">>, f)
    \/ \E sources \in SourceLists(FileSources), overrides \in FileOverrides :
          Parse(sources, overrides)

SpecFiles == Init /\ [][NextFiles]_vars

(***************************************************************************)
(* _convert_value on its own: every raw value over Alphabet of at most     *)
(* MaxRawLen characters, and the values of the example files.              *)
(***************************************************************************)
Alphabet == {DQ, SQ, "o", "n", "N", "1", "0", ".", "-"}

ExampleValues ==
    { <<"4", "2">>, <<"3", ".", "1", "4">>, <<"t", "r", "u", "e">>, <<"h", "e", "l", "l", "o">>, <<"T", "r", "u", "e">>, <<"Y", "E", "S">>, <<"O", "f", "f">>, <<"f", "a", "l", "s", "e">>,
      <<"9", "0", "0", "0">>, <<"0", ".", "0", ".", "0", ".", "0">>, <<"s", "e", "c", "r", "e", "t", "1", "2", "3">>, <<SQ, " ", "E", "X", "A", "M", "P", "L", "E", ".", "c", "o", "m", " ", SQ>>, <<"a", "=", "b">>,
      <<DQ, "h", "e", "l", "l", "o", DQ>>, <<SQ, DQ, "O", "n", DQ, SQ>>, <<DQ, DQ, "i", "t", SQ, "s", DQ, DQ>>, <<DQ, " ", "4", "2", " ", DQ>>, <<"1", "_", "0", "0", "0">>, <<"1", ".", "5", "e", "3">>,
      <<"+", "7">>, <<"-", "2", ".", "5", "0">> }

RawValues == UNION {[1..n -> Alphabet] : n \in 0..MaxRawLen} \cup ExampleValues

NotCalled == [t |-> "not called"]

InitConvert ==
    /\ value_arg \in RawValues
    /\ value_str = value_arg
    /\ converted = NotCalled
    /\ default_config = EmptyDict
    /\ config = EmptyDict
    /\ validators = EmptyDict
    /\ transformers = EmptyDict
    /\ ret = [op |-> "__init__"]

\* _convert_value(value_arg)
Convert ==
    /\ converted = NotCalled
    /\ value_str' = StripQuotes(value_arg)
    /\ converted' = ConvertValue(value_arg)
    /\ UNCHANGED <<value_arg, parser_vars>>

NextConvert == Convert

SpecConvert == InitConvert /\ [][NextConvert]_vars

(***************************************************************************)
(* Properties.                                                             *)
(***************************************************************************)
ParseDone == ret.op = "parse"
SourcesFolded == ParseDone /\ ret.stage # "sources"
Transformed == ParseDone /\ ret.stage \in {"validate", "returned"}
Returned == ParseDone /\ ret.stage = "returned"

Max(S) == CHOOSE x \in S : \A y \in S : y <= x
Min(S) == CHOOSE x \in S : \A y \in S : x <= y

\* the entries a supported source contributes
Contribution(source) ==
    CASE source.type = "dict" -> source.items
      [] source.type = "str" -> LoadFromFile(source.s).items
      [] OTHER -> source.to_dict

\* what the transformer registered for k, if any, makes of v
TransformedValue(k, v) ==
    IF Has(transformers, k) THEN CallTransformer(Get(transformers, k), v).v ELSE v

\* C1 as amended: when parse returns, each key of overrides holds the
\* override's value as its registered transformer leaves it, and the
\* override's value itself when no transformer is registered for the key,
\* whatever the base and the sources hold for that key.
OverridesDominateUpToTransform ==
    Returned =>
        \A k \in Keys(ret.overrides) :
            /\ Has(ret.value, k)
            /\ Get(ret.value, k) = TransformedValue(k, Get(ret.overrides, k))

\* C1 as stated: when parse returns, each key of overrides holds exactly
\* overrides[k] in the returned mapping.
OverridesDominate ==
    Returned =>
        \A k \in Keys(ret.overrides) :
            Has(ret.value, k) /\ Get(ret.value, k) = Get(ret.overrides, k)

\* a returned mapping where a transformed override key differs from the
\* override, and another override key beat a different value from a source
OverridesDominateWitness ==
    /\ Returned
    /\ \E k \in Keys(ret.overrides) :
          Has(transformers, k) /\ Get(ret.value, k) # Get(ret.overrides, k)
    /\ \E k \in Keys(ret.overrides), i \in DOMAIN ret.sources :
          /\ ret.sources[i].type = "dict"
          /\ Has(ret.sources[i].items, k)
          /\ Get(ret.sources[i].items, k) # Get(ret.overrides, k)
          /\ Get(ret.value, k) = Get(ret.overrides, k)

\* C2: after the sources loop result holds the keys of the base and of every
\* source, each with the value of the last source that has the key, and with
\* the base's value when no source has it.
LaterSourceWins ==
    SourcesFolded =>
        LET n == Len(ret.sources)
            holders(k) == {i \in 1..n : Has(Contribution(ret.sources[i]), k)}
            all == Keys(config) \cup UNION {Keys(Contribution(ret.sources[i])) : i \in 1..n}
        IN  /\ Keys(ret.folded) = all
            /\ \A k \in all :
                  Get(ret.folded, k) =
                      IF holders(k) = {} THEN Get(config, k)
                      ELSE Get(Contribution(ret.sources[Max(holders(k))]), k)

\* two sources and the base disagree on a key, and the later source's value
\* is the one result holds
LaterSourceWinsWitness ==
    /\ SourcesFolded
    /\ Len(ret.sources) = 2
    /\ \E k \in Keys(config) :
          /\ Has(Contribution(ret.sources[1]), k)
          /\ Has(Contribution(ret.sources[2]), k)
          /\ Get(Contribution(ret.sources[1]), k) # Get(Contribution(ret.sources[2]), k)
          /\ Get(config, k) # Get(Contribution(ret.sources[2]), k)
          /\ Get(ret.folded, k) = Get(Contribution(ret.sources[2]), k)

\* C4: once the merged result is transformed, parse raises the validation
\* ValueError, naming a rejected key and its value and returning nothing,
\* exactly when some registered validator whose key is in the result rejects
\* that key's value; a validator whose key is not in the result is not called.
Rejecting ==
    {k \in Keys(validators) \cap Keys(ret.result) :
        ~CallValidator(Get(validators, k), Get(ret.result, k))}

ValidationFailureAborts ==
    Transformed =>
        /\ Rejecting # {} =>
              /\ ret.stage = "validate"
              /\ ret.value = PyNone
              /\ ret.exc.type = "ValueError"
              /\ ret.exc.msg = "Validation failed for config key"
              /\ ret.exc.key \in Rejecting
              /\ ret.exc.value = Get(ret.result, ret.exc.key)
        /\ Rejecting = {} => ret.stage = "returned" /\ ret.exc = NoExc
        /\ \A i \in DOMAIN ret.vcalls : ret.vcalls[i].key \in Keys(ret.result)

\* port=70000 is rejected by the port validator while a validator is
\* registered for a key the result lacks
ValidationFailureAbortsWitness ==
    /\ ParseDone
    /\ ret.stage = "validate"
    /\ ret.exc = ValidationFailed(<<"p", "o", "r", "t">>, VInt(70000))
    /\ \E k \in Keys(validators) : ~Has(ret.result, k)

\* C8: every key of the merged result with a registered transformer is
\* transformed exactly once, from its merged value; the other keys keep
\* their merged value and no key is added; validators are called on, and
\* parse returns, the transformed values.
TransformOnceBeforeValidation ==
    Transformed =>
        LET due == Keys(ret.merged) \cap Keys(transformers)
        IN  /\ Keys(ret.result) = Keys(ret.merged)
            /\ \A k \in Keys(ret.merged) :
                  Get(ret.result, k) = TransformedValue(k, Get(ret.merged, k))
            /\ \A k \in due :
                  \E i \in DOMAIN ret.tcalls :
                      /\ ret.tcalls[i] = [key |-> k, arg |-> Get(ret.merged, k)]
                      /\ \A j \in DOMAIN ret.tcalls : ret.tcalls[j].key = k => j = i
            /\ \A i \in DOMAIN ret.tcalls : ret.tcalls[i].key \in due
            /\ \A i \in DOMAIN ret.vcalls :
                  ret.vcalls[i].arg = TransformedValue(ret.vcalls[i].key,
                                                       Get(ret.merged, ret.vcalls[i].key))
            /\ Returned => ret.value = ret.result

\* a key with both a transformer and a validator, whose transformed value
\* differs from the merged one and is what the validator was called on
TransformOnceBeforeValidationWitness ==
    /\ Transformed
    /\ \E k \in Keys(ret.merged) \cap Keys(transformers) \cap Keys(validators) :
          /\ Get(ret.result, k) # Get(ret.merged, k)
          /\ \E i \in DOMAIN ret.vcalls :
                ret.vcalls[i] = [key |-> k, arg |-> Get(ret.result, k)]

\* C9: the validators are called in the registry's order on the keys the
\* result holds, up to and including the first that rejects, which is the
\* key the error names; and the registry's order is the order in which its
\* keys were first registered.
KeyOrder(d) == [i \in DOMAIN d |-> d[i].k]

PresentValidators == SelectSeq(KeyOrder(validators), LAMBDA k : Has(ret.result, k))

FailFastInRegistryOrder ==
    Transformed =>
        LET present == PresentValidators
            bad == {i \in DOMAIN present : present[i] \in Rejecting}
        IN  IF bad = {}
            THEN [i \in DOMAIN ret.vcalls |-> ret.vcalls[i].key] = present
            ELSE /\ [i \in DOMAIN ret.vcalls |-> ret.vcalls[i].key]
                        = SubSeq(present, 1, Min(bad))
                 /\ ret.exc.key = present[Min(bad)]

FirstRegistrationOrder ==
    \/ KeyOrder(validators') = KeyOrder(validators)
    \/ /\ ret'.op = "add_validator"
       /\ ~Has(validators, ret'.key)
       /\ KeyOrder(validators') = Append(KeyOrder(validators), ret'.key)

ValidationFailFast == [](FailFastInRegistryOrder) /\ [][FirstRegistrationOrder]_vars

\* two registered validators both reject, the first registered is the one
\* named and the only one called
ValidationFailFastWitness ==
    /\ Transformed
    /\ Len(validators) = 2
    /\ Keys(validators) \subseteq Rejecting
    /\ ret.exc.key = validators[1].k
    /\ Len(ret.vcalls) = 1

\* C3: a parse call, whether it returns or raises, leaves self.config and
\* both registries as they were, so self.config is always the mapping the
\* instance was constructed with.
ParseLeavesInstance ==
    ret'.op = "parse" =>
        /\ config' = config
        /\ validators' = validators
        /\ transformers' = transformers

InstanceUntouchedByParse == [](config = default_config) /\ [][ParseLeavesInstance]_vars

\* a parse call that raised the validation error after building a result
\* that differs from self.config
InstanceUntouchedByParseWitness ==
    /\ ParseDone
    /\ ret.stage = "validate"
    /\ ret.exc.type = "ValueError"
    /\ validators # EmptyDict
    /\ AsMap(ret.result) # AsMap(config)
    /\ config = default_config

\* C5: when sources holds an element that is no dict, no str and has no
\* to_dict, and the sources before the first such element load, parse raises
\* the unsupported-source ValueError naming that element's type, returns
\* nothing and calls no transformer and no validator, whatever follows the
\* element and whatever the overrides.
Unsupported(source) == source.type \notin {"dict", "str"} /\ "to_dict" \notin DOMAIN source

Loads(source) == source.type = "str" => LoadFromFile(source.s).type = "dict"

Recoverable(source) ==
    /\ source.type = "str"
    /\ \/ source.s \notin DOMAIN FileSystem
       \/ ~FileSystem[source.s].readable
       \/ EndsWith(source.s, <<".", "j", "s", "o", "n">>) /\ ~FileSystem[source.s].json.ok

Without(seq, i) == SubSeq(seq, 1, i - 1) \o SubSeq(seq, i + 1, Len(seq))

FileConditionsAbsorbed ==
    ParseDone =>
        \A i \in DOMAIN ret.sources :
            Recoverable(ret.sources[i]) =>
                ret = [ParseRun(config, validators, transformers,
                                Without(ret.sources, i), ret.overrides)
                           EXCEPT !.sources = ret.sources]

\* a malformed .json file ahead of a file that loads, in a call that returns
FileConditionsAbsorbedWitness ==
    /\ Returned
    /\ Len(ret.sources) = 2
    /\ ret.sources[1] = PyStr(BadJsonPath)
    /\ ret.sources[2] = PyStr(SampleConfigPath)
    /\ Has(ret.value, <<"a", "p", "i", "_", "k", "e", "y">>)

\* C7: _convert_value returns, for the quote-stripped string s: True or
\* False when s is one of the boolean words in any case; else the float s
\* parses to when s holds a "." and the int s parses to when it holds none;
\* and s itself when that parse fails.
EqualsIgnoringCase(s, w) ==
    /\ Len(s) = Len(w)
    /\ \A i \in 1..Len(s) :
          s[i] = w[i] \/ (s[i] \in DOMAIN UpperToLower /\ UpperToLower[s[i]] = w[i])

Coerced(s) ==
    IF \E w \in TrueWords : EqualsIgnoringCase(s, w) THEN VBool(TRUE)
    ELSE IF \E w \in FalseWords : EqualsIgnoringCase(s, w) THEN VBool(FALSE)
    ELSE IF Contains(s, ".")
         THEN (IF ParseFloat(s).ok THEN ParseFloat(s).v ELSE VStr(s))
         ELSE (IF ParseInt(s).ok THEN ParseInt(s).v ELSE VStr(s))

CoercionRule ==
    converted # NotCalled =>
        /\ converted = Coerced(value_str)
        /\ value_arg = <<"4", "2">> => converted = VInt(42)
        /\ value_arg = <<"3", ".", "1", "4">> => converted = VFloat(314, -2)
        /\ value_arg = <<"t", "r", "u", "e">> => converted = VBool(TRUE)
        /\ value_arg = <<"h", "e", "l", "l", "o">> => converted = VStr(<<"h", "e", "l", "l", "o">>)

\* a capitalised boolean word between two layers of quotes
CoercionRuleWitness ==
    /\ value_arg = <<SQ, DQ, "O", "n", DQ, SQ>>
    /\ value_str = <<"O", "n">>
    /\ converted = VBool(TRUE)

\* C10 as amended: _convert_value removes every leading and every trailing
\* quote character of the raw value, however many and whether or not they
\* pair up, and leaves the quote characters inside the value in place.
Quotes == {SQ, DQ}

AllSurroundingQuotesStripped ==
    converted # NotCalled =>
        \E i \in 1..(Len(value_arg) + 1), j \in 0..Len(value_arg) :
            /\ value_str = SubSeq(value_arg, i, j)
            /\ \A n \in 1..(i - 1) : value_arg[n] \in Quotes
            /\ \A n \in (j + 1)..Len(value_arg) : value_arg[n] \in Quotes
            /\ value_str # <<>> =>
                  value_str[1] \notin Quotes /\ value_str[Len(value_str)] \notin Quotes

\* C10 as stated: exactly one layer of surrounding quotes is removed, so a
\* value in two layers keeps the inner one and a quote at one end only stays.
OneLayer(s) ==
    IF Len(s) >= 2 /\ s[1] \in Quotes /\ s[Len(s)] \in Quotes
    THEN SubSeq(s, 2, Len(s) - 1)
    ELSE s

OneQuoteLayerStripped == converted # NotCalled => value_str = OneLayer(value_arg)

\* a value in two layers of quotes with a quote inside it
AllSurroundingQuotesStrippedWitness ==
    /\ converted # NotCalled
    /\ value_arg = <<DQ, DQ, "i", "t", SQ, "s", DQ, DQ>>
    /\ value_str = <<"i", "t", SQ, "s">>

====
